---- MODULE Spec2Model ----
(***************************************************************************)
(* The CloudUploader component                                             *)
(* (src/src/client/components/CloudUploader.tsx): its upload batch         *)
(* orchestrator (Spec, FairSpec), its configuration form (ConfigSpec), the *)
(* form together with the intake (SurfaceSpec) and the pure functions of   *)
(* the intake (FunctionSpec); the credential endpoints of the server       *)
(* (src/src/server, ServerSpec); and one item's credential request from    *)
(* the component to the endpoint and back (BrokerSpec).                    *)
(*                                                                         *)
(* The component is single threaded.  Every action below is one task of    *)
(* the browser's event loop: a user event handler, or the continuation of  *)
(* an async handler from the resolution of the operation it awaits up to   *)
(* its next suspension on a network operation (continuations chained by    *)
(* already-settled promises run as microtasks of the same task).  React    *)
(* applies the queued state updaters in order, so the state after a task   *)
(* is the composition of the task's setUploadState calls.                  *)
(*                                                                         *)
(* response.blob() / response.json() are read in the same step as the      *)
(* fetch they belong to: no state is written between the two awaits.       *)
(***************************************************************************)
EXTENDS Integers, Sequences, FiniteSets, Bags, TLC

\* Bounds of the model.
\* URLs accepted by parseUrls in one batch
MaxItems == 2
\* handler invocations that may be pending at once
MaxHandlers == 2
\* e.total of an upload, in chunks
XhrTotal == 3
\* last value of Date.now()
MaxNow == 1
\* entries of the text of the bulk field or of a URL file
MaxEntries == 3
\* characters of a file name (after a long prefix, for some)
MaxNameLen == 4

VARIABLES
  uploadState,  \* useState<UploadState>: [items, isUploading]
  handlers,     \* the pending invocations of the async intake handlers (a bag)
  now,          \* the last value Date.now() returned
  last,         \* history: the load or error event the last task handled, if any
  cloudConfig,  \* useState<CloudConfig>: [provider, s3, gcp, azure]
  call,         \* the function call or HTTP request under evaluation
  ret           \* what the call returned or the endpoint answered

vars == <<uploadState, handlers, now, last, cloudConfig, call, ret>>

NoCall == [op |-> "none"]
NoReturn == [op |-> "none"]

\* HTTP statuses the three network operations answer with.  A rejected fetch
\* (network failure) reaches the same catch as a response that is not ok and
\* differs from it in the message only; the transfer's failure is XhrError.
\* The messages are those of a 404 Not Found source and of a credential
\* endpoint whose error body carries no message.
FetchStatuses == {200, 404}
CredStatuses == {200, 400}
XhrLoadStatuses == {200, 201, 204}

\* Response.ok
ResponseOk(s) == s >= 200 /\ s <= 299

\* Math.round of the non-negative quotient n / d
MathRound(n, d) == (2 * n + d) \div (2 * d)

RECURSIVE SumProgress(_)
SumProgress(its) ==
  IF its = <<>> THEN 0 ELSE Head(its).progress + SumProgress(Tail(its))

\* mutant: the mean is truncated
getOverallProgressFloor(its) ==
  IF Len(its) = 0 THEN 0 ELSE SumProgress(its) \div Len(its)

getOverallProgress(its) ==
  IF Len(its) = 0 THEN 0 ELSE MathRound(SumProgress(its), Len(its))

(***************************************************************************)
(* Strings.  A string is the sequence of its characters, so that trimming, *)
(* stripping, splitting and truncating are computed character by           *)
(* character as String.prototype does.                                     *)
(***************************************************************************)
\* the white space String.prototype.trim removes (the part typed here)
WhiteSpace == {" ", "\t", "\n", "\r"}

RECURSIVE TrimStart(_)
TrimStart(s) ==
  IF s # <<>> /\ Head(s) \in WhiteSpace THEN TrimStart(Tail(s)) ELSE s

RECURSIVE TrimEnd(_)
TrimEnd(s) ==
  IF s # <<>> /\ s[Len(s)] \in WhiteSpace
  THEN TrimEnd(SubSeq(s, 1, Len(s) - 1)) ELSE s

Trim(s) == TrimEnd(TrimStart(s))

\* s.replace(/[cs]/g, '')
Strip(s, cs) == SelectSeq(s, LAMBDA c : c \notin cs)

\* mutant: the input is not trimmed
sanitizeInputNoTrim(input) == Strip(input, {"<", ">", "'", "\"", "&"})

sanitizeInput(input) == Strip(Trim(input), {"<", ">", "'", "\"", "&"})

sanitizeUrl(url) == Strip(Trim(url), {"<", ">", "'", "\""})

\* a JavaScript string in a condition: '' is falsy
Truthy(s) == s # <<>>

LowerCase ==
  <<"a", "b", "c", "d", "e", "f", "g", "h", "i", "j", "k", "l", "m",
    "n", "o", "p", "q", "r", "s", "t", "u", "v", "w", "x", "y", "z">>
UpperCase ==
  <<"A", "B", "C", "D", "E", "F", "G", "H", "I", "J", "K", "L", "M",
    "N", "O", "P", "Q", "R", "S", "T", "U", "V", "W", "X", "Y", "Z">>
Digits == {"0", "1", "2", "3", "4", "5", "6", "7", "8", "9"}

Range(f) == {f[i] : i \in DOMAIN f}
Letters == Range(LowerCase) \cup Range(UpperCase)

ToLowerCase(c) ==
  IF c \in Range(UpperCase)
  THEN LowerCase[CHOOSE i \in DOMAIN UpperCase : UpperCase[i] = c]
  ELSE c

\* the position of the first character of s that is in cs, Len(s) + 1 if none
IndexOfAny(s, cs, i) ==
  LET found == {j \in i..Len(s) : s[j] \in cs}
  IN  IF found = {} THEN Len(s) + 1
      ELSE CHOOSE j \in found : \A k \in found : j <= k

\* the position of the last character of s that is in cs, 0 if none
LastIndexOfAny(s, cs, i) ==
  LET found == {j \in 1..i : s[j] \in cs}
  IN  IF found = {} THEN 0
      ELSE CHOOSE j \in found : \A k \in found : j >= k

\* input.split(/[,\n\r]+/): a run of separators separates two pieces; the
\* text before the first run and the text after the last are pieces, empty
\* or not
UrlSeparators == {",", "\n", "\r"}

RECURSIVE SplitFrom(_, _, _, _)
SplitFrom(s, i, piece, pieces) ==
  IF i > Len(s) THEN Append(pieces, piece)
  ELSE IF s[i] \in UrlSeparators
  THEN IF i > 1 /\ s[i - 1] \in UrlSeparators
       THEN SplitFrom(s, i + 1, piece, pieces)
       ELSE SplitFrom(s, i + 1, <<>>, Append(pieces, piece))
  ELSE SplitFrom(s, i + 1, Append(piece, s[i]), pieces)

Split(s) == SplitFrom(s, 1, <<>>, <<>>)

(***************************************************************************)
(* new URL(url) without a base, as far as isValidUrl depends on it: the    *)
(* parser drops leading and trailing spaces and control characters and     *)
(* every tab and newline, reads the scheme up to the first ':' (a letter,  *)
(* then letters, digits, '+', '-', '.'; case-insensitive) and fails        *)
(* without one; for http and https it skips the slashes after the ':' and  *)
(* fails if the host that follows is empty or holds a forbidden character. *)
(* Any other scheme parses, with a protocol other than http: and https:.   *)
(***************************************************************************)
ForbiddenInHost == {" ", "<", ">", "^", "|", "[", "]"}

UrlInput(url) == Strip(Trim(url), {"\t", "\n", "\r"})

\* the scheme of url in lower case, <<>> if url has none
UrlScheme(url) ==
  LET s == UrlInput(url)
      k == IndexOfAny(s, {":"}, 1)
      body == SubSeq(s, 1, k - 1)
  IN  IF /\ k <= Len(s) /\ k > 1
         /\ s[1] \in Letters
         /\ \A i \in DOMAIN body : body[i] \in Letters \cup Digits \cup {"+", "-", "."}
      THEN [i \in DOMAIN body |-> ToLowerCase(body[i])]
      ELSE <<>>

\* the host of an http or https url
UrlHost(url) ==
  LET s == UrlInput(url)
      k == IndexOfAny(s, {":"}, 1)
      rest == SubSeq(s, k + 1, Len(s))
      h == IndexOfAny(rest, Range(rest) \ {"/", "\\"}, 1)
      tail == SubSeq(rest, h, Len(rest))
      e == IndexOfAny(tail, {"/", "\\", "?", "#"}, 1)
  IN  SubSeq(tail, 1, e - 1)

Http == <<"h", "t", "t", "p">>
Https == <<"h", "t", "t", "p", "s">>

isValidUrl(url) ==
  /\ UrlScheme(url) \in {Http, Https}
  /\ UrlHost(url) # <<>>
  /\ \A i \in DOMAIN UrlHost(url) : UrlHost(url)[i] \notin ForbiddenInHost

\* mutant: candidates that are not URLs are kept
parseUrlsUnchecked(input) ==
  LET pieces == Split(input)
      urls == [i \in DOMAIN pieces |-> sanitizeUrl(pieces[i])]
  IN  SelectSeq(urls, LAMBDA url : Truthy(url))

\* split, then .map(sanitizeUrl), then .filter(url => url && isValidUrl(url))
parseUrls(input) ==
  LET pieces == Split(input)
      urls == [i \in DOMAIN pieces |-> sanitizeUrl(pieces[i])]
  IN  SelectSeq(urls, LAMBDA url : Truthy(url) /\ isValidUrl(url))

\* the items handleBulkUpload and handleFileUpload build from the text, at
\* Date.now() = t
UrlItems(input, t) ==
  LET urls == parseUrls(input)
  IN  [k \in DOMAIN urls |->
         [id |-> <<t, k - 1>>, url |-> urls[k], status |-> "pending",
          progress |-> 0]]

\* [a-zA-Z0-9._-]
FileNameChars == Letters \cup Digits \cup {".", "_", "-"}

\* substring(0, 255)
MaxFileNameLength == 255

\* .replace(/_{2,}/g, '_'): an underscore that follows an underscore is dropped
CollapseUnderscores(s) ==
  LET marked == [i \in DOMAIN s |->
                   [c |-> s[i], drop |-> i > 1 /\ s[i] = "_" /\ s[i - 1] = "_"]]
      kept == SelectSeq(marked, LAMBDA m : ~m.drop)
  IN  [i \in DOMAIN kept |-> kept[i].c]

Substring(s, from, to) ==
  SubSeq(s, from + 1, IF to < Len(s) THEN to ELSE Len(s))

\* mutant: runs of underscores are kept
sanitizeFileNameKeepRuns(fileName) ==
  Substring([i \in DOMAIN fileName |->
               IF fileName[i] \in FileNameChars THEN fileName[i] ELSE "_"],
            0, MaxFileNameLength)

sanitizeFileName(fileName) ==
  Substring(CollapseUnderscores(
              [i \in DOMAIN fileName |->
                 IF fileName[i] \in FileNameChars THEN fileName[i] ELSE "_"]),
            0, MaxFileNameLength)

\* 'uploaded-file'
DefaultFileName ==
  <<"u", "p", "l", "o", "a", "d", "e", "d", "-", "f", "i", "l", "e">>

\* item.url.split('/').pop()
LastSegment(url) == SubSeq(url, LastIndexOfAny(url, {"/"}, Len(url)) + 1, Len(url))

\* mutant: no default name
fileNameOfNoDefault(item) ==
  sanitizeFileName(IF Truthy(item.fileName) THEN item.fileName
                   ELSE LastSegment(item.url))

\* the name processUpload gives the File it uploads; an absent item.fileName
\* is the empty string (both are falsy)
fileNameOf(item) ==
  sanitizeFileName(IF Truthy(item.fileName) THEN item.fileName
                   ELSE IF Truthy(LastSegment(item.url)) THEN LastSegment(item.url)
                   ELSE DefaultFileName)

\* fileName in the body of the credential request of getPresignedUrl
RequestFileName(item) == sanitizeFileName(fileNameOf(item))

(***************************************************************************)
(* The cloud configuration (useState<CloudConfig>) and its form.           *)
(***************************************************************************)
Providers == {"s3", "gcp", "azure"}

\* the option values "us-east-1" and "us-west-2" of the region select
UsEast1 == <<"u", "s", "-", "e", "a", "s", "t", "-", "1">>
UsWest2 == <<"u", "s", "-", "w", "e", "s", "t", "-", "2">>
RegionOptions == {UsEast1, UsWest2}

\* what the user types into a text field of the form
TypedValues == {<<>>, <<" ">>, <<" ", "k", "<">>}

InitialConfig ==
  [provider |-> "s3",
   s3 |-> [bucket |-> <<>>, region |-> UsEast1, accessKeyId |-> <<>>,
           secretAccessKey |-> <<>>, sessionToken |-> <<>>, endpoint |-> <<>>],
   gcp |-> [bucket |-> <<>>, projectId |-> <<>>, keyFile |-> <<>>],
   azure |-> [accountName |-> <<>>, containerName |-> <<>>,
              accountKey |-> <<>>, sasToken |-> <<>>]]

\* the text inputs of each provider's form, and those whose onChange stores
\* sanitizeInput(e.target.value) rather than e.target.value
TextFields ==
  [s3 |-> {"bucket", "accessKeyId", "secretAccessKey", "sessionToken"},
   gcp |-> {"bucket", "projectId", "keyFile"},
   azure |-> {"accountName", "containerName", "accountKey", "sasToken"}]

SanitizedFields ==
  [s3 |-> {"bucket", "accessKeyId", "sessionToken"},
   gcp |-> {"bucket", "projectId"},
   azure |-> {"accountName", "containerName", "sasToken"}]

\* mutant: the access key id is not required
isCloudConfiguredLax(c) ==
  LET config == c[c.provider]
  IN  IF c.provider = "s3"
      THEN Truthy(config.bucket) /\ Truthy(config.secretAccessKey)
      ELSE IF c.provider = "gcp"
      THEN Truthy(config.bucket) /\ Truthy(config.projectId)
           /\ Truthy(config.keyFile)
      ELSE IF c.provider = "azure"
      THEN /\ Truthy(config.accountName) /\ Truthy(config.containerName)
           /\ (Truthy(config.accountKey) \/ Truthy(config.sasToken))
      ELSE FALSE

\* isCloudConfigured of a render whose cloudConfig is c
isCloudConfigured(c) ==
  LET config == c[c.provider]
  IN  IF c.provider = "s3"
      THEN Truthy(config.bucket) /\ Truthy(config.accessKeyId)
           /\ Truthy(config.secretAccessKey)
      ELSE IF c.provider = "gcp"
      THEN Truthy(config.bucket) /\ Truthy(config.projectId)
           /\ Truthy(config.keyFile)
      ELSE IF c.provider = "azure"
      THEN /\ Truthy(config.accountName) /\ Truthy(config.containerName)
           /\ (Truthy(config.accountKey) \/ Truthy(config.sasToken))
      ELSE FALSE

\* what a handler's closure reads of the cloudConfig of its render: the
\* provider tag and cloudConfig[cloudConfig.provider]
ActiveConfig(c) == [provider |-> c.provider, config |-> c[c.provider]]

\* the validation at the head of getPresignedUrl: it throws unless ...
ConfigurationPresent(a) ==
  IF a.provider = "s3"
  THEN Truthy(a.config.bucket) /\ Truthy(a.config.accessKeyId)
       /\ Truthy(a.config.secretAccessKey)
  ELSE IF a.provider = "gcp"
  THEN Truthy(a.config.bucket) /\ Truthy(a.config.projectId)
       /\ Truthy(a.config.keyFile)
  ELSE /\ Truthy(a.config.accountName) /\ Truthy(a.config.containerName)
       /\ (Truthy(a.config.accountKey) \/ Truthy(a.config.sasToken))

ConfigurationRequired(a) ==
  IF a.provider = "s3" THEN "S3 configuration required"
  ELSE IF a.provider = "gcp" THEN "GCP configuration required"
  ELSE "Azure configuration required"

\* a configuration the form reaches: the state Spec starts from
SavedConfig ==
  [InitialConfig EXCEPT !.s3.bucket = <<"k">>, !.s3.accessKeyId = <<"k">>,
                        !.s3.secretAccessKey = <<"k">>]

(***************************************************************************)
(* Upload items and the functional updaters of setUploadState.             *)
(***************************************************************************)
\* UploadItem as the handlers create it; error "" is an absent message.
NewItem(id) == [id |-> id, status |-> "pending", progress |-> 0, error |-> ""]

\* ids of handleSingleUpload (`${Date.now()}`) and of the bulk and file
\* handlers (`${Date.now()}-${index}`)
SingleIds(t) == << <<t>> >>
BatchIds(t, n) == [k \in 1..n |-> <<t, k - 1>>]

MarkUploading(its, id) ==
  [k \in DOMAIN its |->
     IF its[k].id = id
     THEN [its[k] EXCEPT !.status = "uploading", !.progress = 0]
     ELSE its[k]]

MarkSuccess(its, id) ==
  [k \in DOMAIN its |->
     IF its[k].id = id
     THEN [its[k] EXCEPT !.status = "success", !.progress = 100]
     ELSE its[k]]

\* mutant: the updater forgets to select the failed item
MarkErrorAll(its, id, msg) ==
  [k \in DOMAIN its |->
     [its[k] EXCEPT !.status = "error", !.progress = 0, !.error = msg]]

MarkError(its, id, msg) ==
  [k \in DOMAIN its |->
     IF its[k].id = id
     THEN [its[k] EXCEPT !.status = "error", !.progress = 0, !.error = msg]
     ELSE its[k]]

SetProgress(its, id, p) ==
  [k \in DOMAIN its |->
     IF its[k].id = id THEN [its[k] EXCEPT !.progress = p] ELSE its[k]]

RECURSIVE FilterOut(_, _)
FilterOut(its, id) ==
  IF its = <<>> THEN <<>>
  ELSE IF Head(its).id = id THEN FilterOut(Tail(its), id)
       ELSE <<Head(its)>> \o FilterOut(Tail(its), id)

(***************************************************************************)
(* Handler invocations.  Each pending invocation of handleSingleUpload,    *)
(* handleBulkUpload or handleFileUpload is a record: pc is the operation   *)
(* it awaits ("text" file.text(), "fetch" the source fetch, "cred" the     *)
(* credential request, "xhr" the transfer), items the array its loop       *)
(* iterates (the ids), idx the position of the loop, loaded the bytes the  *)
(* transfer has reported, sent the operations issued for items[idx],       *)
(* response the statuses of the responses it holds for items[idx] (the     *)
(* local response of processUpload and of getPresignedUrl, 0 before the    *)
(* await returns), fileType the type of the File it built for items[idx]   *)
(* (written where the request body is written out, '' elsewhere), config   *)
(* what its closure reads of the cloudConfig of the render in which the    *)
(* event fired.  Invocations in the same state are interchangeable, so     *)
(* they form a bag.                                                        *)
(***************************************************************************)
NoneSent == [fetch |-> 0, cred |-> 0, put |-> 0]
NoResponse == [fetch |-> 0, cred |-> 0]

AwaitText(cfg) ==
  [pc |-> "text", items |-> <<>>, idx |-> 0, loaded |-> 0, sent |-> NoneSent,
   response |-> NoResponse, fileType |-> <<>>, config |-> cfg]

\* a handler that has set up its items array and issued nothing yet
Created(ids, cfg) ==
  [pc |-> "loop", items |-> ids, idx |-> 0, loaded |-> 0, sent |-> NoneSent,
   response |-> NoResponse, fileType |-> <<>>, config |-> cfg]

Cur(r) == r.items[r.idx]

Pending == BagToSet(handlers)
Running == {r \in Pending : r.pc # "text"}

Spawn(r) == handlers (+) SetToBag({r})
Finish(r) == handlers (-) SetToBag({r})
Become(r, q) == (handlers (-) SetToBag({r})) (+) SetToBag({q})

NoEvent == [op |-> "none", id |-> <<>>, status |-> 0]
Event(op, id, status) == [op |-> op, id |-> id, status |-> status]

\* the endpoint getPresignedUrl posts to and the headers uploadFileToCloud
\* sets, for what the closure reads of the configuration
Endpoint(a) ==
  IF a.provider = "s3" THEN "/api/s3-presigned-url"
  ELSE IF a.provider = "gcp" THEN "/api/gcp-signed-url"
  ELSE "/api/azure-sas-url"

TransferHeaders(a) ==
  IF a.provider = "azure" THEN {"Content-Type", "x-ms-blob-type"}
  ELSE {"Content-Type"}

\* mutant: each processUpload reads the configuration of the latest render
ProcessUploadRecLive(r, i) ==
  [r EXCEPT !.pc = "fetch", !.idx = i, !.loaded = 0,
            !.response = NoResponse, !.fileType = <<>>,
            !.config = ActiveConfig(cloudConfig),
            !.sent = IF i = r.idx THEN [@ EXCEPT !.fetch = @ + 1]
                     ELSE [NoneSent EXCEPT !.fetch = 1]]

\* processUpload up to its first await: the item is marked uploading (by the
\* caller's updater below) and the source fetch is issued
ProcessUploadRec(r, i) ==
  [r EXCEPT !.pc = "fetch", !.idx = i, !.loaded = 0,
            !.response = NoResponse, !.fileType = <<>>,
            !.sent = IF i = r.idx THEN [@ EXCEPT !.fetch = @ + 1]
                     ELSE [NoneSent EXCEPT !.fetch = 1]]

\* mutant: the new items are appended to the list
StartBatchItemsKeep(ids) ==
  uploadState.items \o
  MarkUploading([k \in DOMAIN ids |-> NewItem(ids[k])], ids[1])

\* setUploadState({ items, isUploading: true }) and the first processUpload
StartBatchItems(ids) ==
  MarkUploading([k \in DOMAIN ids |-> NewItem(ids[k])], ids[1])

\* mutant: the running flag is not cleared after the last item
ContinueKeepFlag(r, its) ==
  IF r.idx < Len(r.items)
  THEN /\ uploadState' = [uploadState EXCEPT
                            !.items = MarkUploading(its, r.items[r.idx + 1])]
       /\ handlers' = Become(r, ProcessUploadRec(r, r.idx + 1))
  ELSE /\ uploadState' = [uploadState EXCEPT !.items = its]
       /\ handlers' = Finish(r)

\* The loop after processUpload returned with the item list its: the next
\* item's processUpload, or setUploadState(prev => ({...prev, isUploading: false})).
Continue(r, its) ==
  IF r.idx < Len(r.items)
  THEN /\ uploadState' = [uploadState EXCEPT
                            !.items = MarkUploading(its, r.items[r.idx + 1])]
       /\ handlers' = Become(r, ProcessUploadRec(r, r.idx + 1))
  ELSE /\ uploadState' = [items |-> its, isUploading |-> FALSE]
       /\ handlers' = Finish(r)

\* Date.now() does not go back
DateNow(t) == t \in {now, now + 1} /\ t <= MaxNow

Init ==
  /\ uploadState = [items |-> <<>>, isUploading |-> FALSE]
  /\ handlers = EmptyBag
  /\ now = 0
  /\ last = NoEvent
  /\ cloudConfig = SavedConfig
  /\ call = NoCall
  /\ ret = NoReturn

(***************************************************************************)
(* User events.  A control is usable when it is rendered and not disabled. *)
(* The three intake forms are shown one at a time (mode); the mode buttons *)
(* are disabled by isUploading as the intake controls are, so whenever one *)
(* intake control is usable a click on a mode button makes any other one   *)
(* usable: the model leaves the mode out.  The text fields are inputs the  *)
(* user sets before the click; the cloud configuration is the state the    *)
(* form actions below write.                                               *)
(***************************************************************************)
\* mutant: the Upload File button does not look at the configuration
handleSingleUploadAnyConfig ==
  /\ ~uploadState.isUploading
  /\ BagCardinality(handlers) < MaxHandlers
  /\ \E t \in 0..MaxNow :
       /\ DateNow(t)
       /\ now' = t
       /\ uploadState' = [items |-> StartBatchItems(SingleIds(t)),
                          isUploading |-> TRUE]
       /\ handlers' = Spawn(ProcessUploadRec(
                             Created(SingleIds(t), ActiveConfig(cloudConfig)), 1))
       /\ last' = NoEvent
  /\ UNCHANGED <<cloudConfig, call, ret>>

handleSingleUpload ==
  /\ ~uploadState.isUploading
  /\ isCloudConfigured(cloudConfig)
  /\ BagCardinality(handlers) < MaxHandlers
  /\ \E t \in 0..MaxNow :
       /\ DateNow(t)
       /\ now' = t
       /\ uploadState' = [items |-> StartBatchItems(SingleIds(t)),
                          isUploading |-> TRUE]
       /\ handlers' = Spawn(ProcessUploadRec(
                             Created(SingleIds(t), ActiveConfig(cloudConfig)), 1))
       /\ last' = NoEvent
  /\ UNCHANGED <<cloudConfig, call, ret>>

handleBulkUpload ==
  /\ ~uploadState.isUploading
  /\ isCloudConfigured(cloudConfig)
  /\ BagCardinality(handlers) < MaxHandlers
  /\ \E n \in 1..MaxItems, t \in 0..MaxNow :
       /\ DateNow(t)
       /\ now' = t
       /\ uploadState' = [items |-> StartBatchItems(BatchIds(t, n)),
                          isUploading |-> TRUE]
       /\ handlers' = Spawn(ProcessUploadRec(
                             Created(BatchIds(t, n), ActiveConfig(cloudConfig)), 1))
       /\ last' = NoEvent
  /\ UNCHANGED <<cloudConfig, call, ret>>

\* onChange of the file input: handleFileUpload up to await file.text()
handleFileUpload ==
  /\ ~uploadState.isUploading
  /\ isCloudConfigured(cloudConfig)
  /\ BagCardinality(handlers) < MaxHandlers
  /\ handlers' = Spawn(AwaitText(ActiveConfig(cloudConfig)))
  /\ last' = NoEvent
  /\ UNCHANGED <<uploadState, now, cloudConfig, call, ret>>

\* file.text() resolved and parseUrls kept n URLs (n = 0: the handler throws
\* 'No valid URLs found in file', which its catch logs)
FileTextResolve(r) ==
  /\ r.pc = "text"
  /\ \E n \in 0..MaxItems :
       IF n = 0
       THEN /\ handlers' = Finish(r)
            /\ last' = NoEvent
            /\ UNCHANGED <<uploadState, now>>
       ELSE \E t \in 0..MaxNow :
              /\ DateNow(t)
              /\ now' = t
              /\ uploadState' = [items |-> StartBatchItems(BatchIds(t, n)),
                                 isUploading |-> TRUE]
              /\ handlers' = Become(r, ProcessUploadRec(
                                         Created(BatchIds(t, n), r.config), 1))
              /\ last' = NoEvent
  /\ UNCHANGED <<cloudConfig, call, ret>>

removeItem(id) ==
  /\ \E k \in DOMAIN uploadState.items :
       /\ uploadState.items[k].id = id
       /\ uploadState.items[k].status # "uploading"
  /\ uploadState' = [uploadState EXCEPT !.items = FilterOut(@, id)]
  /\ last' = NoEvent
  /\ UNCHANGED <<handlers, now, cloudConfig, call, ret>>

clearAll ==
  /\ Len(uploadState.items) > 0
  /\ ~uploadState.isUploading
  /\ uploadState' = [items |-> <<>>, isUploading |-> FALSE]
  /\ last' = NoEvent
  /\ UNCHANGED <<handlers, now, cloudConfig, call, ret>>

(***************************************************************************)
(* The configuration form.  The modal renders the provider buttons and the *)
(* inputs of the active provider only; an onChange replaces the field by   *)
(* the value typed (controlled inputs), sanitized where the handler does.  *)
(* The form edits cloudConfig directly: Cancel and Save only close it.     *)
(***************************************************************************)
\* mutant: selecting a provider starts from an empty form
selectProviderFresh(provider) ==
  /\ cloudConfig' = [InitialConfig EXCEPT !.provider = provider]
  /\ last' = NoEvent
  /\ UNCHANGED <<uploadState, handlers, now, call, ret>>

\* onClick of a provider button: setCloudConfig(prev => ({ ...prev, provider }))
selectProvider(provider) ==
  /\ cloudConfig' = [cloudConfig EXCEPT !.provider = provider]
  /\ last' = NoEvent
  /\ UNCHANGED <<uploadState, handlers, now, call, ret>>

\* onChange of the text input of field f, the user having typed v
changeField(f, v) ==
  LET p == cloudConfig.provider
  IN  /\ f \in TextFields[p]
      /\ cloudConfig' =
           [cloudConfig EXCEPT
              ![p][f] = IF f \in SanitizedFields[p] THEN sanitizeInput(v) ELSE v]
      /\ last' = NoEvent
      /\ UNCHANGED <<uploadState, handlers, now, call, ret>>

\* onChange of the region select
changeRegion(v) ==
  /\ cloudConfig.provider = "s3"
  /\ cloudConfig' = [cloudConfig EXCEPT !.s3.region = v]
  /\ last' = NoEvent
  /\ UNCHANGED <<uploadState, handlers, now, call, ret>>

(***************************************************************************)
(* Network resolutions: the continuations of processUpload.                *)
(***************************************************************************)
\* mutant: response.ok is not looked at
FetchResolveUngated(r) ==
  /\ r.pc = "fetch"
  /\ \E s \in FetchStatuses :
       /\ last' = NoEvent
       /\ IF ~ConfigurationPresent(r.config)
          THEN Continue(r, MarkError(uploadState.items, Cur(r),
                                     ConfigurationRequired(r.config)))
          ELSE /\ handlers' = Become(r, [r EXCEPT !.pc = "cred",
                                                  !.response.fetch = s,
                                                  !.sent.cred = @ + 1])
               /\ UNCHANGED uploadState
  /\ UNCHANGED <<now, cloudConfig, call, ret>>

\* mutant: a source fetch that fails is issued again
FetchResolveRetry(r) ==
  /\ r.pc = "fetch"
  /\ \E s \in FetchStatuses :
       /\ last' = NoEvent
       /\ IF ~ResponseOk(s)
          THEN /\ handlers' = Become(r, ProcessUploadRec(r, r.idx))
               /\ UNCHANGED uploadState
          ELSE IF ~ConfigurationPresent(r.config)
          THEN Continue(r, MarkError(uploadState.items, Cur(r),
                                     ConfigurationRequired(r.config)))
          ELSE /\ handlers' = Become(r, [r EXCEPT !.pc = "cred",
                                                  !.response.fetch = s,
                                                  !.sent.cred = @ + 1])
               /\ UNCHANGED uploadState
  /\ UNCHANGED <<now, cloudConfig, call, ret>>

\* await fetch(item.url) and response.blob(), then getPresignedUrl: its
\* validation of the configuration, and its fetch
FetchResolve(r) ==
  /\ r.pc = "fetch"
  /\ \E s \in FetchStatuses :
       /\ last' = NoEvent
       /\ IF ~ResponseOk(s)
          THEN Continue(r, MarkError(uploadState.items, Cur(r),
                                     "Fetch failed: Not Found"))
          ELSE IF ~ConfigurationPresent(r.config)
          THEN Continue(r, MarkError(uploadState.items, Cur(r),
                                     ConfigurationRequired(r.config)))
          ELSE /\ handlers' = Become(r, [r EXCEPT !.pc = "cred",
                                                  !.response.fetch = s,
                                                  !.sent.cred = @ + 1])
               /\ UNCHANGED uploadState
  /\ UNCHANGED <<now, cloudConfig, call, ret>>

\* await fetch(endpoint) and response.json(), then uploadFileToCloud up to xhr.send
CredResolve(r) ==
  /\ r.pc = "cred"
  /\ \E s \in CredStatuses :
       /\ last' = NoEvent
       /\ IF ResponseOk(s)
          THEN /\ handlers' = Become(r, [r EXCEPT !.pc = "xhr",
                                                  !.loaded = 0,
                                                  !.response.cred = s,
                                                  !.sent.put = @ + 1])
               /\ UNCHANGED uploadState
          ELSE Continue(r, MarkError(uploadState.items, Cur(r),
                                     "Failed to get signed URL"))
  /\ UNCHANGED <<now, cloudConfig, call, ret>>

\* xhr.upload 'progress' with e.lengthComputable
XhrProgress(r) ==
  /\ r.pc = "xhr"
  /\ \E l \in r.loaded..XhrTotal :
       /\ handlers' = Become(r, [r EXCEPT !.loaded = l])
       /\ uploadState' = [uploadState EXCEPT
            !.items = SetProgress(@, Cur(r), MathRound(l * 100, XhrTotal))]
  /\ last' = NoEvent
  /\ UNCHANGED <<now, cloudConfig, call, ret>>

\* xhr 'load'
XhrLoad(r) ==
  /\ r.pc = "xhr"
  /\ \E s \in XhrLoadStatuses :
       /\ last' = Event("load", Cur(r), s)
       /\ IF s = 200 \/ s = 201
          THEN Continue(r, MarkSuccess(uploadState.items, Cur(r)))
          ELSE Continue(r, MarkError(uploadState.items, Cur(r),
                                     "Upload failed: " \o ToString(s)))
  /\ UNCHANGED <<now, cloudConfig, call, ret>>

\* xhr 'error'
XhrError(r) ==
  /\ r.pc = "xhr"
  /\ last' = Event("error", Cur(r), 0)
  /\ Continue(r, MarkError(uploadState.items, Cur(r), "Network error"))
  /\ UNCHANGED <<now, cloudConfig, call, ret>>

Next ==
  \/ handleSingleUpload
  \/ handleBulkUpload
  \/ handleFileUpload
  \/ \E r \in Pending : FileTextResolve(r)
  \/ \E k \in DOMAIN uploadState.items : removeItem(uploadState.items[k].id)
  \/ clearAll
  \/ \E r \in Running : FetchResolve(r)
  \/ \E r \in Running : CredResolve(r)
  \/ \E r \in Running : XhrProgress(r)
  \/ \E r \in Running : XhrLoad(r)
  \/ \E r \in Running : XhrError(r)

Spec == Init /\ [][Next]_vars

\* Every network operation in flight eventually resolves.
Resolve ==
  \E r \in Running :
    FetchResolve(r) \/ CredResolve(r) \/ XhrLoad(r) \/ XhrError(r)

FairSpec == Spec /\ WF_vars(Resolve)

(***************************************************************************)
(* The configuration form alone, from the initial state of the component.  *)
(***************************************************************************)
ConfigInit ==
  /\ uploadState = [items |-> <<>>, isUploading |-> FALSE]
  /\ handlers = EmptyBag
  /\ now = 0
  /\ last = NoEvent
  /\ cloudConfig = InitialConfig
  /\ call = NoCall
  /\ ret = NoReturn

ConfigNext ==
  \/ \E provider \in Providers : selectProvider(provider)
  \/ \E f \in TextFields[cloudConfig.provider], v \in TypedValues :
       changeField(f, v)
  \/ \E v \in RegionOptions : changeRegion(v)

ConfigSpec == ConfigInit /\ [][ConfigNext]_vars

(***************************************************************************)
(* The surface: the configuration form together with the upload controls.  *)
(* The form stays usable while a batch runs (the Configure button is never *)
(* disabled).  The user has entered the names of the three providers'      *)
(* buckets and accounts, and enters and clears the credentials.            *)
(***************************************************************************)
\* a configuration the form reaches: every field but the credentials entered
NamedConfig ==
  [InitialConfig EXCEPT
     !.s3.bucket = <<"k">>, !.s3.accessKeyId = <<"k">>,
     !.gcp.bucket = <<"k">>, !.gcp.projectId = <<"k">>,
     !.azure.accountName = <<"k">>, !.azure.containerName = <<"k">>]

\* the inputs of the credentials
SecretFields ==
  [s3 |-> {"secretAccessKey"}, gcp |-> {"keyFile"},
   azure |-> {"sasToken"}]

\* what the user types into them
SurfaceTyped == {<<>>, <<" ", "k", "<">>}

SurfaceInit ==
  /\ uploadState = [items |-> <<>>, isUploading |-> FALSE]
  /\ handlers = EmptyBag
  /\ now = 0
  /\ last = NoEvent
  /\ cloudConfig = NamedConfig
  /\ call = NoCall
  /\ ret = NoReturn

SurfaceNext ==
  \/ \E provider \in Providers : selectProvider(provider)
  \/ \E f \in SecretFields[cloudConfig.provider], v \in SurfaceTyped :
       changeField(f, v)
  \/ handleSingleUpload
  \/ handleBulkUpload
  \/ handleFileUpload
  \/ \E r \in Pending : FileTextResolve(r)
  \/ \E r \in Running : FetchResolve(r)
  \/ \E r \in Running : CredResolve(r)
  \/ \E r \in Running : XhrLoad(r)

SurfaceSpec == SurfaceInit /\ [][SurfaceNext]_vars

(***************************************************************************)
(* The pure functions of the intake, applied to inputs drawn from bounded  *)
(* sets: the text of the bulk field or of a URL file, a file name, an item *)
(* as the intake creates it.                                               *)
(***************************************************************************)
F1Url ==
  <<"h", "t", "t", "p", "s", ":", "/", "/", "x", ".", "c", "o", "m", "/",
    "f", "1", ".", "j", "p", "g">>
NotAUrl ==
  <<"n", "o", "t", "-", "a", "-", "u", "r", "l">>
F2Url ==
  <<"h", "t", "t", "p", "s", ":", "/", "/", "x", ".", "c", "o", "m", "/",
    "f", "2", ".", "p", "n", "g">>
QuotedUrl ==
  <<" ", "<", "H", "T", "T", "P", ":", "/", "/", "x", ".", "c", "o", "m",
    "/", ">", " ">>
FtpUrl ==
  <<"f", "t", "p", ":", "/", "/", "x", ".", "c", "o", "m", "/", "f">>
NoHostUrl ==
  <<"h", "t", "t", "p", "s", ":", "/", "/">>
SpaceHostUrl ==
  <<"h", "t", "t", "p", ":", "/", "/", "x", " ", "y">>
APdfUrl ==
  <<"h", "t", "t", "p", "s", ":", "/", "/", "e", "x", "a", "m", "p", "l",
    "e", ".", "c", "o", "m", "/", "a", ".", "p", "d", "f">>
HostOnlyUrl ==
  <<"h", "t", "t", "p", "s", ":", "/", "/", "x", ".", "c", "o", "m">>
SlashUrl ==
  <<"h", "t", "t", "p", "s", ":", "/", "/", "x", ".", "c", "o", "m", "/">>
QueryUrl ==
  <<"h", "t", "t", "p", "s", ":", "/", "/", "x", ".", "c", "o", "m", "/",
    "a", " ", "b", "?", "c", "=", "1">>
APdf ==
  <<"a", ".", "p", "d", "f">>
GivenName ==
  <<"m", "y", " ", "f", "i", "l", "e", ".", "t", "x", "t">>

\* the pieces of a text (entries, the empty entry, two entries with a
\* carriage return between them), and what joins two pieces
Candidates ==
  {F1Url, NotAUrl, F2Url, QuotedUrl, FtpUrl, SpaceHostUrl, <<>>,
   NoHostUrl \o <<"\r">> \o F1Url}
Separations == {<<",">>, <<"\n">>}

RECURSIVE Texts(_)
Texts(n) ==
  IF n = 1 THEN Candidates
  ELSE {t \o s \o c : t \in Texts(n - 1), s \in Separations, c \in Candidates}

\* the characters of the file names, and a name of 253 characters that puts
\* what follows it across the limit of 255
NameChars == {"a", "_", " ", ".", "/"}
LongName == [i \in 1..(MaxFileNameLength - 2) |-> "a"]

RECURSIVE Names(_)
Names(n) ==
  IF n = 0 THEN {<<>>}
  ELSE Names(n - 1) \cup {Append(s, c) : s \in Names(n - 1), c \in NameChars}

\* the URLs of items: all of them passed isValidUrl at the intake
ItemUrls ==
  {APdfUrl, HostOnlyUrl, SlashUrl, QueryUrl, F1Url,
   SlashUrl \o LongName \o LongName}

\* the calls on texts of up to entries pieces and names of up to len
\* characters
FunctionCalls(entries, len) ==
  {[op |-> "parseUrls", input |-> t] :
     t \in UNION {Texts(n) : n \in 1..entries}}
  \cup {[op |-> "sanitizeFileName", input |-> s \o t] :
          s \in {<<>>, LongName}, t \in Names(len)}
  \cup {[op |-> "fileName", input |-> [url |-> u, fileName |-> f]] :
          u \in ItemUrls, f \in {<<>>, GivenName}}

FunctionInit ==
  /\ uploadState = [items |-> <<>>, isUploading |-> FALSE]
  /\ handlers = EmptyBag
  /\ now = 0
  /\ last = NoEvent
  /\ cloudConfig = SavedConfig
  /\ call \in FunctionCalls(MaxEntries, MaxNameLen)
  /\ ret = NoReturn

\* handleBulkUpload and handleFileUpload from the text to the items array
applyParseUrls ==
  /\ call.op = "parseUrls" /\ ret = NoReturn
  /\ ret' = [op |-> "parseUrls", urls |-> parseUrls(call.input),
             items |-> UrlItems(call.input, now)]
  /\ UNCHANGED <<uploadState, handlers, now, last, cloudConfig, call>>

applySanitizeFileName ==
  /\ call.op = "sanitizeFileName" /\ ret = NoReturn
  /\ ret' = [op |-> "sanitizeFileName", name |-> sanitizeFileName(call.input)]
  /\ UNCHANGED <<uploadState, handlers, now, last, cloudConfig, call>>

\* processUpload from the item to the body of the credential request
applyFileName ==
  /\ call.op = "fileName" /\ ret = NoReturn
  /\ ret' = [op |-> "fileName", file |-> fileNameOf(call.input),
             fileName |-> RequestFileName(call.input)]
  /\ UNCHANGED <<uploadState, handlers, now, last, cloudConfig, call>>

FunctionNext == applyParseUrls \/ applySanitizeFileName \/ applyFileName

FunctionSpec == FunctionInit /\ [][FunctionNext]_vars

(***************************************************************************)
(* The credential endpoints of the server.  The repository holds each      *)
(* route twice: src/src/server/routes/{s3,gcp,azure}.ts, which             *)
(* src/src/server/index.ts imports and mounts (s3ConfigSchema,             *)
(* gcpConfigSchema, azureConfigSchema), and a second copy in               *)
(* src/unnamed/part_000 and part_001 (s3RequestSchema, gcpRequestSchema,   *)
(* azureRequestSchema).  A handler shares no state with another request,   *)
(* so it is one step from the request body to the response; what the       *)
(* provider SDK does with the credentials is not in the repository and is  *)
(* a choice between returning and throwing.                                *)
(***************************************************************************)
\* a property the JSON body does not have
Undefined == <<"undefined">>

\* z.string().min(1)
MinOne(v) == v # Undefined /\ Len(v) >= 1

\* z.string().min(1).max(255)
MinOneMax(v) == MinOne(v) /\ Len(v) <= MaxFileNameLength

\* a string property in a condition: undefined and '' are falsy
Present(v) == v # Undefined /\ v # <<>>

s3ConfigSchema(body) ==
  /\ MinOne(body.fileName) /\ MinOne(body.fileType)
  /\ body.config.provider = "s3"
  /\ MinOne(body.config.bucket) /\ MinOne(body.config.region)
  /\ MinOne(body.config.accessKeyId) /\ MinOne(body.config.secretAccessKey)

gcpConfigSchema(body) ==
  /\ MinOne(body.fileName) /\ MinOne(body.fileType)
  /\ body.config.provider = "gcp"
  /\ MinOne(body.config.bucket) /\ MinOne(body.config.projectId)
  /\ MinOne(body.config.keyFile)

azureConfigSchema(body) ==
  /\ MinOne(body.fileName) /\ MinOne(body.fileType)
  /\ body.config.provider = "azure"
  /\ MinOne(body.config.accountName) /\ MinOne(body.config.containerName)

s3RequestSchema(body) ==
  /\ MinOneMax(body.fileName) /\ MinOne(body.fileType)
  /\ body.config.provider = "s3"
  /\ MinOne(body.config.bucket) /\ MinOne(body.config.region)
  /\ MinOne(body.config.accessKeyId) /\ MinOne(body.config.secretAccessKey)

gcpRequestSchema(body) ==
  /\ MinOneMax(body.fileName) /\ MinOne(body.fileType)
  /\ body.config.provider = "gcp"
  /\ MinOne(body.config.bucket) /\ MinOne(body.config.projectId)
  /\ MinOne(body.config.keyFile)

azureRequestSchema(body) ==
  /\ MinOneMax(body.fileName) /\ MinOne(body.fileType)
  /\ body.config.provider = "azure"
  /\ MinOne(body.config.accountName) /\ MinOne(body.config.containerName)
  /\ Present(body.config.accountKey) \/ Present(body.config.sasToken)

\* JSON.parse on the key files of the model: it returns for a number and
\* for an object of at most one string member, and throws for the rest
JsonString(s) ==
  /\ Len(s) >= 2 /\ s[1] = "\"" /\ s[Len(s)] = "\""
  /\ \A i \in 2..(Len(s) - 1) : s[i] \notin {"\"", "\\"}

JsonMember(s) ==
  LET k == IndexOfAny(s, {":"}, 1)
  IN  /\ k <= Len(s)
      /\ JsonString(Trim(SubSeq(s, 1, k - 1)))
      /\ JsonString(Trim(SubSeq(s, k + 1, Len(s))))

JsonParses(text) ==
  LET s == Trim(text)
      inner == Trim(SubSeq(s, 2, Len(s) - 1))
  IN  \/ s # <<>> /\ \A i \in DOMAIN s : s[i] \in Digits
      \/ /\ Len(s) >= 2 /\ s[1] = "{" /\ s[Len(s)] = "}"
         /\ inner = <<>> \/ JsonMember(inner)

\* the keys of the error object of a response
Envelope == {"code", "message", "timestamp"}
EnvelopeWithId == {"code", "message", "timestamp", "requestId"}
EnvelopeWithDetails == {"code", "message", "details", "timestamp", "requestId"}

\* res.json({ signedUrl }): clients and signs count the SDK clients the
\* handler constructed and the signing calls it made, url tells a freshly
\* signed URL from the URL of a client built on the caller's token
Success(url, clients, signs) ==
  [op |-> "response", status |-> 200, code |-> "", error |-> {}, url |-> url,
   clients |-> clients, signs |-> signs, threw |-> FALSE]

\* res.status(status).json({ error: { code, ... } }); threw: the SDK threw
Failure(status, code, keys, clients, signs, threw) ==
  [op |-> "response", status |-> status, code |-> code, error |-> keys,
   url |-> "none", clients |-> clients, signs |-> signs, threw |-> threw]

SdkOutcomes == {"returns", "throws"}

KeyJson ==
  <<"{", "\"", "t", "y", "p", "e", "\"", ":", "\"", "s", "e", "r", "v",
    "i", "c", "e", "_", "a", "c", "c", "o", "u", "n", "t", "\"", "}">>
KeyPath ==
  <<"k", "e", "y", ".", "j", "s", "o", "n">>
KeyTruncated ==
  <<"{", "\"", "t", "y", "p", "e", "\"", ":">>

\* the values of a string property of a request body
Values == {Undefined, <<>>, <<"v">>}

S3Bodies ==
  {[fileName |-> n, fileType |-> t,
    config |-> [provider |-> p, bucket |-> b, region |-> r, accessKeyId |-> a,
                secretAccessKey |-> k, sessionToken |-> <<>>,
                endpoint |-> <<>>]] :
     n \in {<<>>, APdf, LongName \o APdf}, t \in {<<>>, <<"t">>}, p \in {"s3", "gcp"},
     b \in Values, r \in Values, a \in Values, k \in Values}

GcpBodies ==
  {[fileName |-> n, fileType |-> t,
    config |-> [provider |-> p, bucket |-> b, projectId |-> j, keyFile |-> k]] :
     n \in {<<>>, APdf, LongName \o APdf}, t \in {<<>>, <<"t">>}, p \in {"gcp", "s3"},
     b \in Values, j \in Values,
     k \in {Undefined, <<>>, KeyJson, KeyPath, KeyTruncated}}

AzureBodies ==
  {[fileName |-> n, fileType |-> t,
    config |-> [provider |-> p, accountName |-> a, containerName |-> c,
                accountKey |-> k, sasToken |-> s]] :
     n \in {<<>>, APdf, LongName \o APdf}, t \in {<<>>, <<"t">>}, p \in {"azure", "s3"},
     a \in Values, c \in Values, k \in Values, s \in Values}

Requests ==
  {[op |-> o, body |-> b] : o \in {"s3Routes", "s3RoutesPart001"}, b \in S3Bodies}
  \cup {[op |-> o, body |-> b] :
          o \in {"gcpRoutes", "gcpRoutesPart000"}, b \in GcpBodies}
  \cup {[op |-> o, body |-> b] :
          o \in {"azureRoutes", "azureRoutesPart001"}, b \in AzureBodies}

ServerInit ==
  /\ uploadState = [items |-> <<>>, isUploading |-> FALSE]
  /\ handlers = EmptyBag
  /\ now = 0
  /\ last = NoEvent
  /\ cloudConfig = SavedConfig
  /\ call \in Requests
  /\ ret = NoReturn

\* POST /api/s3-presigned-url, src/src/server/routes/s3.ts
s3Routes ==
  /\ call.op = "s3Routes" /\ ret = NoReturn
  /\ \E sdk \in SdkOutcomes :
       ret' = IF ~s3ConfigSchema(call.body)
              THEN Failure(400, "S3_PRESIGNED_URL_ERROR", Envelope, 0, 0, FALSE)
              ELSE IF sdk = "throws"
              THEN Failure(400, "S3_PRESIGNED_URL_ERROR", Envelope, 1, 1, TRUE)
              ELSE Success("signed", 1, 1)
  /\ UNCHANGED <<uploadState, handlers, now, last, cloudConfig, call>>

\* POST /api/gcp-signed-url, src/src/server/routes/gcp.ts: the key file is
\* handed to the Storage client as a file name
gcpRoutes ==
  /\ call.op = "gcpRoutes" /\ ret = NoReturn
  /\ \E sdk \in SdkOutcomes :
       ret' = IF ~gcpConfigSchema(call.body)
              THEN Failure(400, "GCP_SIGNED_URL_ERROR", Envelope, 0, 0, FALSE)
              ELSE IF sdk = "throws"
              THEN Failure(400, "GCP_SIGNED_URL_ERROR", Envelope, 1, 1, TRUE)
              ELSE Success("signed", 1, 1)
  /\ UNCHANGED <<uploadState, handlers, now, last, cloudConfig, call>>

\* POST /api/azure-sas-url, src/src/server/routes/azure.ts: generateSasUrl
\* is called on the blob client of either mode
azureRoutes ==
  /\ call.op = "azureRoutes" /\ ret = NoReturn
  /\ \E sdk \in SdkOutcomes :
       ret' = IF ~azureConfigSchema(call.body)
              THEN Failure(400, "AZURE_SAS_URL_ERROR", Envelope, 0, 0, FALSE)
              ELSE IF ~Present(call.body.config.accountKey)
                      /\ ~Present(call.body.config.sasToken)
              THEN Failure(400, "AZURE_SAS_URL_ERROR", Envelope, 0, 0, FALSE)
              ELSE IF sdk = "throws"
              THEN Failure(400, "AZURE_SAS_URL_ERROR", Envelope, 1, 1, TRUE)
              ELSE Success("signed", 1, 1)
  /\ UNCHANGED <<uploadState, handlers, now, last, cloudConfig, call>>

\* the S3 route of src/unnamed/part_001
s3RoutesPart001 ==
  /\ call.op = "s3RoutesPart001" /\ ret = NoReturn
  /\ \E sdk \in SdkOutcomes :
       ret' = IF ~s3RequestSchema(call.body)
              THEN Failure(400, "VALIDATION_ERROR", EnvelopeWithDetails, 0, 0, FALSE)
              ELSE IF sdk = "throws"
              THEN Failure(500, "S3_ERROR", EnvelopeWithId, 1, 1, TRUE)
              ELSE Success("signed", 1, 1)
  /\ UNCHANGED <<uploadState, handlers, now, last, cloudConfig, call>>

\* the GCP route of src/unnamed/part_000: the key file is parsed as JSON
gcpRoutesPart000 ==
  /\ call.op = "gcpRoutesPart000" /\ ret = NoReturn
  /\ \E sdk \in SdkOutcomes :
       ret' = IF ~gcpRequestSchema(call.body)
              THEN Failure(400, "VALIDATION_ERROR", EnvelopeWithDetails, 0, 0, FALSE)
              ELSE IF ~JsonParses(call.body.config.keyFile)
              THEN Failure(400, "INVALID_CREDENTIALS", EnvelopeWithId, 0, 0, FALSE)
              ELSE IF sdk = "throws"
              THEN Failure(500, "GCP_ERROR", EnvelopeWithId, 1, 1, TRUE)
              ELSE Success("signed", 1, 1)
  /\ UNCHANGED <<uploadState, handlers, now, last, cloudConfig, call>>

\* the Azure route of src/unnamed/part_001: generateBlobSASQueryParameters
\* with the account key, else the URL of a client built on the SAS token
azureRoutesPart001 ==
  /\ call.op = "azureRoutesPart001" /\ ret = NoReturn
  /\ \E sdk \in SdkOutcomes :
       ret' = IF ~azureRequestSchema(call.body)
              THEN Failure(400, "VALIDATION_ERROR", EnvelopeWithDetails, 0, 0, FALSE)
              ELSE IF Present(call.body.config.accountKey)
              THEN IF sdk = "throws"
                   THEN Failure(500, "AZURE_ERROR", EnvelopeWithId, 1, 1, TRUE)
                   ELSE Success("signed", 1, 1)
              ELSE Success("reused", 1, 0)
  /\ UNCHANGED <<uploadState, handlers, now, last, cloudConfig, call>>

ServerNext ==
  \/ s3Routes
  \/ gcpRoutes
  \/ azureRoutes
  \/ s3RoutesPart001
  \/ gcpRoutesPart000
  \/ azureRoutesPart001

ServerSpec == ServerInit /\ [][ServerNext]_vars

(***************************************************************************)
(* One item from its source fetch to the end of its credential request,    *)
(* with the request and the response written out: the handler posts the    *)
(* body of getPresignedUrl in call, the route answers in ret, and the      *)
(* handler goes on with that answer.  The state at the start is the one    *)
(* handleSingleUpload leaves, for a configured form of each provider.      *)
(***************************************************************************)
\* blob.type of the fetched content: '' when the source names no media type
MediaTypes ==
  {<<>>, <<"i", "m", "a", "g", "e", "/", "p", "n", "g">>,
   <<"a", "&", "/", "b">>}

\* mutant: an empty media type is replaced by a default
CredentialRequestBodyDefaultType(a, fileName, fileType) ==
  [fileName |-> sanitizeFileName(fileName),
   fileType |-> IF sanitizeInput(fileType) = <<>> THEN <<"b", "i", "n">>
                ELSE sanitizeInput(fileType),
   config |-> [provider |-> a.provider] @@ a.config]

\* JSON.stringify({ fileName, fileType, config: { provider, ...config } })
CredentialRequestBody(a, fileName, fileType) ==
  [fileName |-> sanitizeFileName(fileName),
   fileType |-> sanitizeInput(fileType),
   config |-> [provider |-> a.provider] @@ a.config]

\* the handlers of the endpoint: the mounted route, and its second copy
RoutesOf(a) ==
  IF a.provider = "s3" THEN {"s3Routes", "s3RoutesPart001"}
  ELSE IF a.provider = "gcp" THEN {"gcpRoutes", "gcpRoutesPart000"}
  ELSE {"azureRoutes", "azureRoutesPart001"}

\* a configured form of each provider
BrokerInit ==
  /\ cloudConfig \in
       {SavedConfig,
        [NamedConfig EXCEPT !.provider = "gcp", !.gcp.keyFile = KeyJson],
        [NamedConfig EXCEPT !.provider = "azure", !.azure.accountKey = <<"k">>],
        [NamedConfig EXCEPT !.provider = "azure", !.azure.sasToken = <<"k">>]}
  /\ uploadState = [items |-> StartBatchItems(SingleIds(0)),
                    isUploading |-> TRUE]
  /\ handlers = SetToBag({ProcessUploadRec(
                            Created(SingleIds(0), ActiveConfig(cloudConfig)), 1)})
  /\ now = 0
  /\ last = NoEvent
  /\ call = NoCall
  /\ ret = NoReturn

\* await fetch(item.url) and response.blob(), the File of the blob's type,
\* then getPresignedUrl up to its fetch(endpoint, { body })
FetchResolveBlob(r) ==
  /\ r.pc = "fetch"
  /\ \E s \in FetchStatuses, type \in MediaTypes, url \in ItemUrls,
        route \in RoutesOf(r.config) :
       /\ last' = NoEvent
       /\ IF ~ResponseOk(s)
          THEN /\ Continue(r, MarkError(uploadState.items, Cur(r),
                                        "Fetch failed: Not Found"))
               /\ UNCHANGED <<call, ret>>
          ELSE IF ~ConfigurationPresent(r.config)
          THEN /\ Continue(r, MarkError(uploadState.items, Cur(r),
                                        ConfigurationRequired(r.config)))
               /\ UNCHANGED <<call, ret>>
          ELSE /\ handlers' = Become(r, [r EXCEPT !.pc = "cred",
                                                  !.response.fetch = s,
                                                  !.fileType = type,
                                                  !.sent.cred = @ + 1])
               /\ call' = [op |-> route,
                           body |-> CredentialRequestBody(
                                      r.config,
                                      fileNameOf([url |-> url, fileName |-> <<>>]),
                                      type)]
               /\ ret' = NoReturn
               /\ UNCHANGED uploadState
  /\ UNCHANGED <<now, cloudConfig>>

\* the response of the endpoint arrives: getPresignedUrl from response.ok
\* on, then uploadFileToCloud up to xhr.send, or the catch of processUpload
CredResolveResponse(r) ==
  /\ r.pc = "cred" /\ ret # NoReturn
  /\ last' = NoEvent
  /\ IF ResponseOk(ret.status)
     THEN /\ handlers' = Become(r, [r EXCEPT !.pc = "xhr",
                                             !.loaded = 0,
                                             !.response.cred = ret.status,
                                             !.sent.put = @ + 1])
          /\ UNCHANGED uploadState
     ELSE Continue(r, MarkError(uploadState.items, Cur(r),
                                "Failed to get signed URL"))
  /\ UNCHANGED <<now, cloudConfig, call, ret>>

BrokerNext ==
  \/ \E r \in Running : FetchResolveBlob(r)
  \/ s3Routes
  \/ gcpRoutes
  \/ azureRoutes
  \/ s3RoutesPart001
  \/ gcpRoutesPart000
  \/ azureRoutesPart001
  \/ \E r \in Running : CredResolveResponse(r)
  \/ \E r \in Running : XhrLoad(r)

BrokerSpec == BrokerInit /\ [][BrokerNext]_vars

TypeOK ==
  /\ uploadState.isUploading \in BOOLEAN
  /\ \A k \in DOMAIN uploadState.items :
       uploadState.items[k].status \in {"pending", "uploading", "success", "error"}
  /\ \A r \in Pending : r.pc \in {"text", "fetch", "cred", "xhr"}

(***************************************************************************)
(* Properties of the orchestrator.                                         *)
(***************************************************************************)
Items == uploadState.items

Settled(st) == st = "success" \/ st = "error"

\* invocations past their intake, each with one network operation in flight
RunningCount ==
  BagCardinality(handlers) -
  BagCardinality([r \in Pending \ Running |-> CopiesIn(r, handlers)])

Uploading == {k \in DOMAIN Items : Items[k].status = "uploading"}

\* what a step does to the invocations: r is replaced, q is its replacement
Gone(r) == CopiesIn(r, handlers') < CopiesIn(r, handlers)
New(q) == CopiesIn(q, handlers') > CopiesIn(q, handlers)

FirstSent == [fetch |-> 1, cred |-> 0, put |-> 0]

\* the step is the start of a batch
StartStep ==
  \E q \in BagToSet(handlers') :
    New(q) /\ q.pc = "fetch" /\ q.idx = 1 /\ q.sent = FirstSent

\* the step ends r's processUpload of its current item
Left(r) ==
  /\ Gone(r)
  /\ \A q \in BagToSet(handlers') :
       New(q) => ~(q.items = r.items /\ q.idx = r.idx)

\* ... with a failure: a fetch or a credential request that is not ok, a
\* load with a status other than 200 and 201, a network error
Fails(r) == Left(r) /\ (r.pc = "xhr" => last'.status \notin {200, 201})

\* C1: in the item list, an item has left pending only if the item before it
\* has reached success or error (items start and settle in list order).
C1_SequentialOrder ==
  \A k \in DOMAIN Items :
    (k > 1 /\ Items[k].status # "pending") => Settled(Items[k - 1].status)

\* C2: at most one handler is processing items at any time, whatever the
\* interleaving of user actions and pending intake steps.
C2_OneBatchAtATime == RunningCount <= 1

\* C3: a failure of one item stops neither the batch nor any other item: the
\* failed item becomes error, the handler goes on to its next item (or
\* finishes after its last), and no other item of the list changes, but for
\* the next one being started.
Started(it) == [it EXCEPT !.status = "uploading", !.progress = 0]

C3_FailureIsolated ==
  [][\A r \in Running :
       Fails(r) =>
         /\ IF r.idx < Len(r.items)
            THEN \E q \in BagToSet(handlers') :
                   /\ New(q)
                   /\ q.items = r.items /\ q.idx = r.idx + 1
                   /\ q.pc = "fetch" /\ q.sent = FirstSent
            ELSE BagCardinality(handlers') = BagCardinality(handlers) - 1
         /\ Len(Items') = Len(Items)
         /\ \A k \in DOMAIN Items :
              IF Items[k].id = Cur(r)
              THEN Items'[k].status = "error" /\ Items'[k].id = Cur(r)
              ELSE \/ Items'[k] = Items[k]
                   \/ /\ r.idx < Len(r.items)
                      /\ Items[k].id = r.items[r.idx + 1]
                      /\ Items'[k] = Started(Items[k])]_vars

C3_Witness ==
  \E r \in Running :
    /\ r.idx > 1 /\ r.pc = "fetch"
    /\ \E k, j \in DOMAIN Items :
         /\ Items[k].id = r.items[r.idx - 1] /\ Items[k].status = "error"
         /\ Items[j].id = Cur(r) /\ Items[j].status = "uploading"

\* C4: when the network operations resolve, a running batch completes: every
\* item of the list that is pending or uploading gets settled (or leaves the
\* list), and the running flag becomes false.
AllIds ==
  {<<t>> : t \in 0..MaxNow} \cup
  {<<t, k>> : t \in 0..MaxNow, k \in 0..(MaxItems - 1)}

Unsettled(id) ==
  \E k \in DOMAIN Items : Items[k].id = id /\ ~Settled(Items[k].status)

C4_BatchCompletes ==
  /\ []<>(~uploadState.isUploading)
  /\ \A id \in AllIds : []<>(~Unsettled(id))

C4_Witness ==
  /\ ~uploadState.isUploading
  /\ Len(Items) = MaxItems
  /\ \A k \in DOMAIN Items : Settled(Items[k].status)
  /\ handlers = EmptyBag

\* C5: the status of an item only moves pending -> uploading -> success or
\* error; success and error are final.
Moves(a, b) ==
  \/ a = b
  \/ a = "pending" /\ b = "uploading"
  \/ a = "uploading" /\ Settled(b)

C5_StatusMoves ==
  [][~StartStep =>
       \A i \in DOMAIN Items : \A j \in DOMAIN Items' :
         Items[i].id = Items'[j].id => Moves(Items[i].status, Items'[j].status)]_vars

\* C6: no retry: a handler issues at most one source fetch, one credential
\* request and one transfer for an item, and once it has left an item it
\* goes on to the next one.
C6_NoRetry ==
  /\ [](\A r \in Pending :
          r.sent.fetch <= 1 /\ r.sent.cred <= 1 /\ r.sent.put <= 1)
  /\ [][\A q \in BagToSet(handlers') :
          (New(q) /\ q.pc # "text" /\ ~StartStep) =>
            \E r \in Running :
              /\ Gone(r) /\ r.items = q.items
              /\ q.idx = r.idx \/ q.idx = r.idx + 1]_vars

C6_Witness ==
  \E r \in Running :
    /\ r.idx = 2 /\ r.sent = FirstSent
    /\ \E k \in DOMAIN Items : Items[k].id = r.items[1] /\ Items[k].status = "error"

\* C7: at most one item is uploading and at most one network operation of
\* the orchestrator is in flight.
C7_OneInFlight == Cardinality(Uploading) <= 1 /\ RunningCount <= 1

\* C8: progress stays within 0..100, and the progress of an item that is
\* uploading does not decrease.
C8_Progress ==
  /\ [](\A k \in DOMAIN Items : Items[k].progress \in 0..100)
  /\ [][~StartStep =>
          \A i \in DOMAIN Items : \A j \in DOMAIN Items' :
            ( /\ Items[i].id = Items'[j].id
              /\ Items[i].status = "uploading"
              /\ Items'[j].status = "uploading" )
            => Items'[j].progress >= Items[i].progress]_vars

\* C9: an item becomes success exactly by the load of its transfer with
\* status 200 or 201, after its fetch and its credential request succeeded;
\* any other final status makes it error; a success item has progress 100.
C9_SuccessIff ==
  /\ [](\A k \in DOMAIN Items :
          Items[k].status = "success" => Items[k].progress = 100)
  /\ [][/\ \A i \in DOMAIN Items : \A j \in DOMAIN Items' :
             ( /\ ~StartStep
               /\ Items[i].id = Items'[j].id
               /\ Items[i].status # "success"
               /\ Items'[j].status = "success" )
             => /\ last' = Event("load", Items[i].id, last'.status)
                /\ last'.status \in {200, 201}
                /\ \E r \in Running :
                     /\ Left(r) /\ Cur(r) = Items[i].id /\ r.pc = "xhr"
                     /\ r.sent = [fetch |-> 1, cred |-> 1, put |-> 1]
        /\ last'.op = "load" =>
             \A j \in DOMAIN Items' :
               Items'[j].id = last'.id =>
                 Items'[j].status = IF last'.status \in {200, 201}
                                    THEN "success" ELSE "error"]_vars

\* C10 as stated: the aggregate progress is the arithmetic mean of the
\* items' progress values, 0 for the empty list.
C10_ExactMean ==
  IF Len(Items) = 0 THEN getOverallProgress(Items) = 0
  ELSE getOverallProgress(Items) * Len(Items) = SumProgress(Items)

\* C10 amended: the aggregate progress is the arithmetic mean rounded to the
\* nearest integer (half up), 0 for the empty list.
C10_RoundedMean ==
  LET n == Len(Items)
      g == getOverallProgress(Items)
  IN IF n = 0 THEN g = 0
     ELSE /\ 2 * n * g <= 2 * SumProgress(Items) + n
          /\ 2 * SumProgress(Items) + n < 2 * n * (g + 1)

C10_Witness == Len(Items) = 2 /\ SumProgress(Items) % 2 = 1

(***************************************************************************)
(* Properties of the cloud configuration.                                  *)
(***************************************************************************)
\* C11: in every state the configuration form reaches, isCloudConfigured is
\* true exactly when every required field of the active provider is
\* non-empty: bucket, region, accessKeyId and secretAccessKey for S3;
\* bucket, projectId and keyFile for GCS; accountName, containerName and one
\* of accountKey and sasToken for Azure.
C11_ConfiguredIff ==
  LET c == cloudConfig
      Filled(s) == Len(s) > 0
  IN  isCloudConfigured(c) <=>
        \/ /\ c.provider = "s3"
           /\ Filled(c.s3.bucket) /\ Filled(c.s3.region)
           /\ Filled(c.s3.accessKeyId) /\ Filled(c.s3.secretAccessKey)
        \/ /\ c.provider = "gcp"
           /\ Filled(c.gcp.bucket) /\ Filled(c.gcp.projectId)
           /\ Filled(c.gcp.keyFile)
        \/ /\ c.provider = "azure"
           /\ Filled(c.azure.accountName) /\ Filled(c.azure.containerName)
           /\ (Filled(c.azure.accountKey) \/ Filled(c.azure.sasToken))

C11_Witness ==
  /\ cloudConfig.provider = "s3"
  /\ isCloudConfigured(cloudConfig)
  /\ cloudConfig.s3.region = UsWest2
  /\ cloudConfig.azure.accountKey = <<>> /\ cloudConfig.azure.sasToken # <<>>

\* C12: selecting a provider changes the active-provider tag only: the stored
\* values of the three variants are unchanged, so that the values entered
\* for a provider are there again when the user switches back to it.
C12_SelectKeepsValues ==
  [][cloudConfig'.provider # cloudConfig.provider =>
       /\ cloudConfig'.s3 = cloudConfig.s3
       /\ cloudConfig'.gcp = cloudConfig.gcp
       /\ cloudConfig'.azure = cloudConfig.azure]_vars

C12_Witness ==
  /\ cloudConfig.provider = "gcp"
  /\ cloudConfig.s3.bucket # <<>> /\ cloudConfig.azure.accountName # <<>>

\* C13: no upload is attempted with an unconfigured provider: a handler has
\* sent a credential request only with a configuration that has every
\* required field of its provider, a handler whose configuration lacks one
\* has sent nothing but source fetches, and a handler is created only while
\* isCloudConfigured is true, with the configuration of that moment.
C13_ConfiguredUploads ==
  /\ [](LET Filled(s) == Len(s) > 0
            Required(a) ==
              \/ /\ a.provider = "s3"
                 /\ Filled(a.config.bucket) /\ Filled(a.config.region)
                 /\ Filled(a.config.accessKeyId)
                 /\ Filled(a.config.secretAccessKey)
              \/ /\ a.provider = "gcp"
                 /\ Filled(a.config.bucket) /\ Filled(a.config.projectId)
                 /\ Filled(a.config.keyFile)
              \/ /\ a.provider = "azure"
                 /\ Filled(a.config.accountName)
                 /\ Filled(a.config.containerName)
                 /\ (Filled(a.config.accountKey) \/ Filled(a.config.sasToken))
        IN  \A r \in Pending :
              (r.sent.cred > 0 \/ r.sent.put > 0) => Required(r.config))
  /\ [][\A q \in BagToSet(handlers') :
          (New(q) /\ \A r \in Pending : Gone(r) => r.config # q.config) =>
            /\ isCloudConfigured(cloudConfig)
            /\ q.config = ActiveConfig(cloudConfig)]_vars

C13_Witness ==
  /\ ~isCloudConfigured(cloudConfig)
  /\ \E r \in Running :
       /\ r.pc = "cred" /\ r.config.provider = "azure"
       /\ r.config # ActiveConfig(cloudConfig)

(***************************************************************************)
(* Properties of the intake functions.                                     *)
(***************************************************************************)
\* C14: parseUrls splits the text on commas and newline characters, trims
\* each candidate and strips < > ' ", and keeps exactly the candidates that
\* are absolute http or https URLs, in the order of the text and without
\* removing duplicates; the batch has one item per kept URL, in that order.
C14_ParseUrls ==
  ret.op = "parseUrls" =>
    LET c == [i \in DOMAIN Split(call.input) |-> sanitizeUrl(Split(call.input)[i])]
        kept == {i \in DOMAIN c : isValidUrl(c[i])}
        Nth(k) == CHOOSE i \in kept : Cardinality({j \in kept : j <= i}) = k
    IN  /\ \A i \in DOMAIN c : \A j \in DOMAIN c[i] : c[i][j] \notin UrlSeparators
        /\ Len(ret.urls) = Cardinality(kept)
        /\ \A k \in DOMAIN ret.urls :
             /\ ret.urls[k] = c[Nth(k)]
             /\ UrlScheme(ret.urls[k]) \in {Http, Https}
        /\ Len(ret.items) = Len(ret.urls)
        /\ \A k \in DOMAIN ret.items : ret.items[k].url = ret.urls[k]
        /\ call.input = F1Url \o <<",">> \o NotAUrl \o <<",">> \o F2Url =>
             ret.urls = <<F1Url, F2Url>>

C14_Witness ==
  /\ ret.op = "parseUrls"
  /\ call.input = F1Url \o <<",">> \o NotAUrl \o <<",">> \o F2Url
  /\ Len(ret.items) = 2

\* C15: sanitizeFileName is idempotent; its result has at most 255
\* characters, all of them in [A-Za-z0-9._-], and no two underscores in a row.
C15_SanitizeFileName ==
  ret.op = "sanitizeFileName" =>
    /\ sanitizeFileName(ret.name) = ret.name
    /\ Len(ret.name) <= 255
    /\ \A i \in DOMAIN ret.name :
         /\ ret.name[i] \in Letters \cup Digits \cup {".", "_", "-"}
         /\ i > 1 => ~(ret.name[i] = "_" /\ ret.name[i - 1] = "_")

C15_Witness ==
  /\ ret.op = "sanitizeFileName"
  /\ Len(call.input) > 255
  /\ Len(ret.name) = 255
  /\ ret.name[255] = "_"
  /\ ret.name # SubSeq(call.input, 1, 255)

\* C16: the file name sent to the credential endpoint is the sanitized
\* item.fileName if there is one, else the sanitized part of the URL after
\* its last '/', else 'uploaded-file' when that part is empty; it is never
\* empty and has at most 255 characters; https://example.com/a.pdf gives
\* "a.pdf".
C16_RequestFileName ==
  ret.op = "fileName" =>
    LET item == call.input
        url == item.url
        Segment(g) ==
          \/ g = url /\ \A i \in DOMAIN url : url[i] # "/"
          \/ \E i \in DOMAIN url :
               /\ url[i] = "/" /\ g = SubSeq(url, i + 1, Len(url))
               /\ \A j \in DOMAIN g : g[j] # "/"
    IN  /\ IF item.fileName # <<>>
           THEN ret.fileName = sanitizeFileName(item.fileName)
           ELSE IF Segment(<<>>) THEN ret.fileName = DefaultFileName
           ELSE \E i \in 0..Len(url) :
                  /\ Segment(SubSeq(url, i + 1, Len(url)))
                  /\ ret.fileName = sanitizeFileName(SubSeq(url, i + 1, Len(url)))
        /\ ret.fileName = ret.file
        /\ Len(ret.fileName) \in 1..255
        /\ (url = APdfUrl /\ item.fileName = <<>>) => ret.fileName = APdf

C16_Witness ==
  /\ ret.op = "fileName"
  /\ call.input = [url |-> APdfUrl, fileName |-> <<>>]
  /\ ret.fileName = APdf

(***************************************************************************)
(* Properties of the credential endpoints.                                 *)
(***************************************************************************)
\* C17: every endpoint answers 400 with code VALIDATION_ERROR, having
\* constructed no SDK client and made no provider call, to a request that
\* lacks a required field of its provider or has it empty, has an empty
\* fileName or fileType, or carries another provider's tag.
C17_ValidationError ==
  ret.op = "response" =>
    LET b == call.body
        c == b.config
        Missing(v) == v = Undefined \/ v = <<>>
        endpoint == IF call.op \in {"s3Routes", "s3RoutesPart001"} THEN "s3"
                    ELSE IF call.op \in {"gcpRoutes", "gcpRoutesPart000"} THEN "gcp"
                    ELSE "azure"
        lacks == IF endpoint = "s3"
                 THEN Missing(c.bucket) \/ Missing(c.region)
                      \/ Missing(c.accessKeyId) \/ Missing(c.secretAccessKey)
                 ELSE IF endpoint = "gcp"
                 THEN Missing(c.bucket) \/ Missing(c.projectId) \/ Missing(c.keyFile)
                 ELSE Missing(c.accountName) \/ Missing(c.containerName)
                      \/ (Missing(c.accountKey) /\ Missing(c.sasToken))
    IN  (Missing(b.fileName) \/ Missing(b.fileType) \/ c.provider # endpoint \/ lacks)
        => /\ ret.status = 400 /\ ret.code = "VALIDATION_ERROR"
           /\ ret.clients = 0 /\ ret.signs = 0

\* C18: the GCS endpoint answers 400 with code INVALID_CREDENTIALS, without
\* asking the SDK for a signed URL, to a request with every field present
\* whose keyFile is not JSON.
C18_InvalidCredentials ==
  (ret.op = "response" /\ call.op \in {"gcpRoutes", "gcpRoutesPart000"}) =>
    LET b == call.body
        c == b.config
        Filled(v) == v # Undefined /\ v # <<>>
    IN  ( /\ Filled(b.fileName) /\ Len(b.fileName) <= 255 /\ Filled(b.fileType)
          /\ c.provider = "gcp"
          /\ Filled(c.bucket) /\ Filled(c.projectId) /\ Filled(c.keyFile)
          /\ ~JsonParses(c.keyFile) )
        => ret.status = 400 /\ ret.code = "INVALID_CREDENTIALS" /\ ret.signs = 0

\* C19: the Azure endpoint signs a new SAS when the accountKey is non-empty
\* (with or without a sasToken), returns the URL built on the supplied token
\* without signing when only the sasToken is non-empty, and fails before
\* any signing when both are missing.
C19_AzureMode ==
  (ret.op = "response" /\ call.op \in {"azureRoutes", "azureRoutesPart001"}) =>
    LET b == call.body
        c == b.config
        Filled(v) == v # Undefined /\ v # <<>>
    IN  ( /\ Filled(b.fileName) /\ Len(b.fileName) <= 255 /\ Filled(b.fileType)
          /\ c.provider = "azure"
          /\ Filled(c.accountName) /\ Filled(c.containerName) )
        => IF Filled(c.accountKey)
           THEN ret.signs = 1 /\ (ret.status = 200 => ret.url = "signed")
           ELSE IF Filled(c.sasToken)
           THEN ret.status = 200 /\ ret.url = "reused" /\ ret.signs = 0
           ELSE ret.status >= 400 /\ ret.signs = 0

\* C20: when the provider SDK throws, the endpoint answers 500 with the
\* generic code of its provider (S3_ERROR, GCP_ERROR, AZURE_ERROR) in an
\* error object with code, message and timestamp, and has called the SDK
\* once.
C20_ProviderError ==
  (ret.op = "response" /\ ret.threw) =>
    /\ ret.status = 500
    /\ ret.code = IF call.op \in {"s3Routes", "s3RoutesPart001"} THEN "S3_ERROR"
                  ELSE IF call.op \in {"gcpRoutes", "gcpRoutesPart000"} THEN "GCP_ERROR"
                  ELSE "AZURE_ERROR"
    /\ {"code", "message", "timestamp"} \subseteq ret.error
    /\ ret.signs = 1

(***************************************************************************)
(* Properties of the list controls and of the items' records.              *)
(***************************************************************************)
\* C21: removeItem applies only to items whose status is success or error;
\* the removal deletes exactly that item and leaves every other item, their
\* order and the running flag unchanged.
C21_RemoveSettled ==
  [][\A k \in DOMAIN Items :
       removeItem(Items[k].id) =>
         /\ Settled(Items[k].status)
         /\ Items' = [j \in 1..(Len(Items) - 1) |->
                        IF j < k THEN Items[j] ELSE Items[j + 1]]
         /\ uploadState'.isUploading = uploadState.isUploading]_vars

\* C22: clearAll applies only while the running flag is false and leaves
\* the list empty and the flag false; while a batch is in flight no step
\* empties the list, and a handler stops only by finishing its last item.
C22_NoCancel ==
  [][/\ clearAll =>
          /\ ~uploadState.isUploading
          /\ Items' = <<>> /\ ~uploadState'.isUploading
     /\ (Running # {} /\ Items # <<>>) => Items' # <<>>
     /\ \A r \in Running :
          Gone(r) =>
            \/ r.idx = Len(r.items)
            \/ \E q \in BagToSet(handlers') : New(q) /\ q.items = r.items]_vars

\* C23: the step that starts a batch replaces the whole list by the items
\* of the batch, in the order of the handler's array: each is created
\* pending with progress 0 and no error message (the first one is started
\* in the same step), their identifiers are pairwise distinct, and nothing
\* else is in the list.
C23_FreshBatch ==
  [][\A q \in BagToSet(handlers') :
       (New(q) /\ q.pc = "fetch" /\ q.idx = 1 /\ q.sent = FirstSent) =>
         /\ Len(Items') = Len(q.items)
         /\ \A k \in DOMAIN Items' :
              LET created == [id |-> q.items[k], status |-> "pending",
                              progress |-> 0, error |-> ""]
              IN  Items'[k] = IF k = 1 THEN Started(created) ELSE created
         /\ \A j, k \in DOMAIN Items' :
              Items'[j].id = Items'[k].id => j = k
         /\ uploadState'.isUploading]_vars

C23_Witness ==
  \E q, r \in Running :
    /\ q.pc = "fetch" /\ q.idx = 1 /\ q.sent = FirstSent
    /\ Len(q.items) = MaxItems
    /\ \A k \in DOMAIN Items : Items[k].id = q.items[k]
    /\ r.items # q.items /\ r.idx = Len(r.items) /\ r.pc = "xhr"
    /\ \A k \in DOMAIN Items : Items[k].id # Cur(r)

\* C24: every item whose status is error carries a non-empty error message,
\* and no item whose status is pending, uploading or success carries one.
C24_ErrorMessage ==
  \A k \in DOMAIN Items :
    Items[k].status = "error" <=> Items[k].error # ""

\* C25: for the item a handler is on, a credential request has been issued
\* only after the source fetch returned a success status and a transfer
\* only after the credential request returned a success status (with the
\* signed URL); a handler that leaves an item on a failed fetch has issued
\* no credential request and no transfer for it, and one that leaves it on
\* a failed credential request has issued no transfer.
C25_GatedSteps ==
  /\ [](\A r \in Pending :
          /\ r.sent.cred > 0 =>
               r.sent.fetch > 0 /\ ResponseOk(r.response.fetch)
          /\ r.sent.put > 0 =>
               r.sent.cred > 0 /\ ResponseOk(r.response.cred))
  /\ [][\A r \in Running :
          /\ (Left(r) /\ r.pc = "fetch") =>
               r.sent = [fetch |-> 1, cred |-> 0, put |-> 0]
          /\ (Left(r) /\ r.pc = "cred") =>
               r.sent = [fetch |-> 1, cred |-> 1, put |-> 0]]_vars

C25_Witness ==
  \E r \in Running :
    /\ r.idx = 2 /\ r.pc = "xhr" /\ r.response = [fetch |-> 200, cred |-> 200]
    /\ \E k \in DOMAIN Items :
         /\ Items[k].id = r.items[1]
         /\ Items[k].error = "Failed to get signed URL"

\* C26: every item whose status is error has progress 0; and once every
\* handler has finished and every item of the list is settled, the aggregate
\* progress is 100 * (number of success items) / (number of items), rounded
\* to the nearest integer.
C26_ErrorProgress ==
  /\ \A k \in DOMAIN Items : Items[k].status = "error" => Items[k].progress = 0
  /\ ( /\ handlers = EmptyBag /\ Items # <<>>
       /\ \A k \in DOMAIN Items : Settled(Items[k].status) )
     => getOverallProgress(Items) =
          MathRound(100 * Cardinality({k \in DOMAIN Items :
                                         Items[k].status = "success"}),
                    Len(Items))

(***************************************************************************)
(* Properties of the orchestrator together with the configuration form.    *)
(***************************************************************************)
\* C27: a handler uses, for every item of its batch, the provider and the
\* credential values of the moment its user event fired: a handler is
\* created with the active configuration of that moment, every step of a
\* handler keeps it (and with it the endpoint, the credentials sent and the
\* transfer headers), and a step of the form changes no handler.
C27_BatchConfig ==
  [][/\ \A q \in BagToSet(handlers') :
          New(q) =>
            IF \E r \in Pending : Gone(r)
            THEN \A r \in Pending :
                   Gone(r) => /\ q.config = r.config
                              /\ Endpoint(q.config) = Endpoint(r.config)
                              /\ TransferHeaders(q.config) = TransferHeaders(r.config)
            ELSE q.config = ActiveConfig(cloudConfig)
     /\ cloudConfig' # cloudConfig => handlers' = handlers]_vars

C27_Witness ==
  \E r \in Running :
    /\ r.idx = 2 /\ r.pc = "xhr"
    /\ r.config.provider = "azure" /\ cloudConfig.provider = "s3"
    /\ r.config.config # cloudConfig.azure
    /\ Endpoint(r.config) # Endpoint(ActiveConfig(cloudConfig))
    /\ TransferHeaders(r.config) # TransferHeaders(ActiveConfig(cloudConfig))

\* C28: removing an item does not cancel its work.  removeItem changes no
\* handler; a handler goes on to the next identifier of its own array and
\* fetches it whether or not the list still holds it; the steps of a handler
\* on an item the list does not hold change no item of the list, but for
\* the start of the handler's next item; and an identifier that is missing
\* from the list while a handler has it in hand or ahead does not come back
\* into the list.
C28_RemovedStillProcessed ==
  [][/\ \A k \in DOMAIN Items :
          removeItem(Items[k].id) => handlers' = handlers
     /\ \A r \in Running :
          Left(r) /\ r.idx < Len(r.items) =>
            \E q \in BagToSet(handlers') :
              /\ New(q) /\ q.items = r.items /\ q.idx = r.idx + 1
              /\ q.pc = "fetch" /\ q.sent = FirstSent
     /\ \A r \in Running :
          (Gone(r) /\ \A k \in DOMAIN Items : Items[k].id # Cur(r)) =>
            /\ Len(Items') = Len(Items)
            /\ \A k \in DOMAIN Items :
                 \/ Items'[k] = Items[k]
                 \/ /\ Left(r) /\ r.idx < Len(r.items)
                    /\ Items[k].id = r.items[r.idx + 1]
                    /\ Items'[k] = Started(Items[k])
     /\ \A r \in Running : \A i \in r.idx..Len(r.items) :
          (\A k \in DOMAIN Items : Items[k].id # r.items[i]) =>
            \A k \in DOMAIN Items' : Items'[k].id # r.items[i]]_vars

\* C29: whenever the running flag is false, no item of the list is pending
\* or uploading.
C29_IdleSettled ==
  ~uploadState.isUploading =>
    \A k \in DOMAIN Items : Settled(Items[k].status)

(***************************************************************************)
(* Properties of the credential request of an item.                        *)
(***************************************************************************)
\* C30: when the fetched content has an empty media type, the credential
\* request carries an empty fileType (no default is put in its place), the
\* endpoint rejects it before it constructs an SDK client, no transfer is
\* issued for the item, and the step that takes the answer leaves the item
\* in error.
C30_EmptyMediaType ==
  /\ [](\A r \in Running :
          /\ (r.pc = "cred" /\ r.fileType = <<>>) =>
               /\ call.body.fileType = <<>>
               /\ ret # NoReturn =>
                    /\ ~ResponseOk(ret.status)
                    /\ ret.clients = 0 /\ ret.signs = 0
          /\ r.sent.put > 0 => r.fileType # <<>>)
  /\ [][\A r \in Running :
          (Gone(r) /\ r.pc = "cred" /\ r.fileType = <<>>) =>
            /\ Left(r)
            /\ \A q \in BagToSet(handlers') : New(q) => q.pc = "fetch"
            /\ \A k \in DOMAIN Items' :
                 Items'[k].id = Cur(r) =>
                   Items'[k].status = "error" /\ Items'[k].error # ""]_vars

C30_Witness ==
  /\ handlers = EmptyBag
  /\ Len(Items) = 1 /\ Items[1].status = "error"
  /\ Items[1].error = "Failed to get signed URL"
  /\ call.op = "s3Routes"
  /\ call.body.fileType = <<>> /\ call.body.fileName = APdf
  /\ ret.status = 400 /\ ret.clients = 0
====
